---------------------------- MODULE Spec2Model ----------------------------
(***************************************************************************)
(* A model of make_elements.py: the script that reads the "Elements"       *)
(* section of lua_api.txt and builds, for every formspec element, the list *)
(* of parameter shapes it accepts.                                         *)
(*                                                                         *)
(* Python strings are TLA+ strings, handled a character at a time with Len,*)
(* SubSeq and \o.  The TLA+ lexer has no way to write a backtick inside a  *)
(* string, so the document's backtick is written as the apostrophe (BT).   *)
(*                                                                         *)
(* Python values:                                                          *)
(*   (name, type)        a Parameter      [k |-> "P", name, type]          *)
(*   [item, ...]         a list           [k |-> "L", items]               *)
(*   (unit, '...')       a VariadicTail   [k |-> "V", unit]                *)
(* An exception (a failed assert, IndexError, AttributeError, ValueError)  *)
(* is the value Abort, which every caller passes on.                       *)
(***************************************************************************)
EXTENDS Integers, Sequences, FiniteSets, TLC

\* ------------------------------------------------------------ strings

BT == "'"

Whitespace == {" ", "\n", "\t", "\r"}

Ch(s, i) == SubSeq(s, i, i)

StartsWith(s, pre) == Len(pre) <= Len(s) /\ SubSeq(s, 1, Len(pre)) = pre

EndsWith(s, suf) ==
    Len(suf) <= Len(s) /\ SubSeq(s, Len(s) - Len(suf) + 1, Len(s)) = suf

\* str.find: the first index at which sub occurs in s, 0 when it does not.
Find(s, sub) ==
    LET at == {i \in 1..(Len(s) - Len(sub) + 1) : SubSeq(s, i, i + Len(sub) - 1) = sub}
    IN  IF at = {} THEN 0 ELSE CHOOSE i \in at : \A j \in at : i <= j

\* str.rfind: the last index at which sub occurs in s, 0 when it does not.
RFind(s, sub) ==
    LET at == {i \in 1..(Len(s) - Len(sub) + 1) : SubSeq(s, i, i + Len(sub) - 1) = sub}
    IN  IF at = {} THEN 0 ELSE CHOOSE i \in at : \A j \in at : i >= j

Contains(s, sub) == Find(s, sub) # 0

\* s.split(sep, 1)
Split1(s, sep) ==
    LET i == Find(s, sep)
    IN  IF i = 0 THEN <<s>>
        ELSE <<SubSeq(s, 1, i - 1), SubSeq(s, i + Len(sep), Len(s))>>

\* s.rsplit(sep, 1)
RSplit1(s, sep) ==
    LET i == RFind(s, sep)
    IN  IF i = 0 THEN <<s>>
        ELSE <<SubSeq(s, 1, i - 1), SubSeq(s, i + Len(sep), Len(s))>>

\* s.split(sep)
RECURSIVE Split(_, _)
Split(s, sep) ==
    LET i == Find(s, sep)
    IN  IF i = 0 THEN <<s>>
        ELSE <<SubSeq(s, 1, i - 1)>> \o Split(SubSeq(s, i + Len(sep), Len(s)), sep)

\* s.lstrip(chars), s.rstrip(chars), s.strip(chars)
RECURSIVE LStrip(_, _)
LStrip(s, chars) ==
    IF Len(s) > 0 /\ Ch(s, 1) \in chars THEN LStrip(SubSeq(s, 2, Len(s)), chars) ELSE s

RECURSIVE RStrip(_, _)
RStrip(s, chars) ==
    IF Len(s) > 0 /\ Ch(s, Len(s)) \in chars
    THEN RStrip(SubSeq(s, 1, Len(s) - 1), chars) ELSE s

Strip(s, chars) == RStrip(LStrip(s, chars), chars)

UpperCase == "ABCDEFGHIJKLMNOPQRSTUVWXYZ"
LowerCase == "abcdefghijklmnopqrstuvwxyz"

LowerChar(c) ==
    LET i == Find(UpperCase, c) IN IF i = 0 THEN c ELSE Ch(LowerCase, i)

\* s.lower()
RECURSIVE Lower(_)
Lower(s) ==
    IF Len(s) = 0 THEN "" ELSE LowerChar(Ch(s, 1)) \o Lower(SubSeq(s, 2, Len(s)))

\* s.replace(' ', '_')
RECURSIVE SpacesToUnderscores(_)
SpacesToUnderscores(s) ==
    IF Len(s) = 0 THEN ""
    ELSE (IF Ch(s, 1) = " " THEN "_" ELSE Ch(s, 1))
         \o SpacesToUnderscores(SubSeq(s, 2, Len(s)))

\* ------------------------------------------------------------- values

P(name, type) == [k |-> "P", name |-> name, type |-> type]
L(items) == [k |-> "L", items |-> items]
V(unit) == [k |-> "V", unit |-> unit]
Abort == [k |-> "Abort"]

IsParam(v) == v.k = "P"
IsList(v) == v.k = "L"
IsTail(v) == v.k = "V"
\* isinstance(v, tuple): a Parameter and a VariadicTail are both tuples
IsTuple(v) == v.k \in {"P", "V"}

Front(s) == SubSeq(s, 1, Len(s) - 1)
Last(s) == s[Len(s)]

\* ----------------------------------------------------- parameter names

_known(name) ==
    CASE name \in {"x", "y", "w", "h", "selected_idx", "version",
                   "starting_item_index", "scroll_factor", "frame_count",
                   "frame_duration", "frame_start"} -> "number"
      [] name \in {"auto_clip", "fixed_size", "transparent", "draw_border",
                   "bool", "noclip", "drawborder", "selected", "force",
                   "close_on_enter", "continuous", "mouse_control"} -> "boolean"
      [] name = "fullscreen" -> "fullscreen"
      [] name \in {"param", "opt", "prop"} -> "table"
      [] name = "" -> "null"
      [] OTHER -> "string"

_aliases(param) ==
    CASE param = "type" -> "elem_type"
      [] param = "cell" -> "cells"
      [] OTHER -> param

\* The name before the assertion of line 41.
NormalName(param) ==
    _aliases(SpacesToUnderscores(Strip(Strip(Lower(param), Whitespace), {"<", ">"})))

S(str) == [k |-> "S", str |-> str]
IsAbort(v) == v.k = "Abort"

\* S(name) on success, Abort when the assertion param != '...' fails.
_fix_param_name(param) ==
    IF NormalName(param) = "..." THEN Abort ELSE S(NormalName(param))

\* n[0][:-1].rsplit('_', 1)[0].rstrip('_')
GroupName(name) == RStrip(RSplit1(SubSeq(name, 1, Len(name) - 1), "_")[1], {"_"})

_get_name(n) == IF ~IsTuple(n) \/ IsTail(n) THEN "..." ELSE GroupName(n.name)


\* ------------------------------------------------ signature grammar

RECURSIVE _fix_param(_)
RECURSIVE FixLoop(_, _, _)

\* The workaround's condition (lines 60-62), left to right as Python
\* evaluates it: "no", "yes", or "crash" when last[0][0] or res[-1][0][0]
\* is not a string (AttributeError on .endswith).
WorkaroundTest(res, last) ==
    IF res = <<>> \/ ~IsList(last) THEN "no"
    ELSE IF last.items = <<>> THEN "no"
    ELSE IF ~IsParam(last.items[1]) THEN "crash"
    ELSE IF ~EndsWith(last.items[1].name, "2") THEN "no"
    ELSE IF ~IsList(Last(res)) THEN "no"
    ELSE IF Last(res).items = <<>> THEN "no"
    ELSE IF ~IsParam(Last(res).items[1]) THEN "crash"
    ELSE IF EndsWith(Last(res).items[1].name, "1") THEN "yes" ELSE "no"

\* last = res.pop(); last[0] = (last[0][0][:-2], last[0][1])   (lines 63-64)
WorkaroundSeed(res) ==
    LET last == Last(res)
        first == last.items[1]
    IN  L(<<P(SubSeq(first.name, 1, Len(first.name) - 2), first.type)>>
          \o Tail(last.items))

\* while res and _get_name(res[-1]) == name: res.pop()   (lines 70-71)
RECURSIVE PopGroup(_, _)
PopGroup(res, name) ==
    IF res # <<>> /\ _get_name(Last(res)) = name
    THEN PopGroup(Front(res), name) ELSE res

\* Lines 66-72: the seed becomes the VariadicTail.  A list, or Abort.
TailOf(res, last) ==
    LET name == _get_name(last)
    IN  IF name = "..." THEN L(Append(res, V(last)))
        ELSE LET unit == _fix_param(S(name))
             IN  IF IsAbort(unit) THEN Abort
                 ELSE L(Append(PopGroup(res, name), V(unit)))

\* Lines 56-72: the token '...' with res accumulated so far.  A list, or
\* Abort.
Ellipsis(res) ==
    IF res = <<>> THEN Abort
    ELSE LET last == Last(res)
             rest == Front(res)
             w == WorkaroundTest(rest, last)
         IN  CASE w = "crash" -> Abort
               [] w = "yes" -> TailOf(Front(rest), WorkaroundSeed(rest))
               [] OTHER -> TailOf(rest, last)

\* Mutant: no break, the loop goes on with the tokens after '...'.
Continue(param, i, res) == FixLoop(param, i + 1, res.items)

\* Line 73, then line 75: break out of the loop and return res.
Break(param, i, res) == res

\* Lines 52-75: the loop over the stripped tokens, from token i on.
FixLoop(param, i, res) ==
    IF i > Len(param) THEN L(res)
    ELSE LET p == Strip(param[i], Whitespace)
         IN  IF p # "..."
             THEN LET v == _fix_param(S(p))
                  IN  IF IsAbort(v) THEN Abort
                      ELSE FixLoop(param, i + 1, Append(res, v))
             ELSE LET r == Ellipsis(res)
                  IN  IF IsAbort(r) THEN Abort ELSE Break(param, i, r)

RECURSIVE SplitEach(_)
SplitEach(tokens) ==
    IF tokens = <<>> THEN <<>>
    ELSE Split(Head(tokens), ",") \o SplitEach(Tail(tokens))

\* Mutant: the names a comma joins are not grouped, the shape is flat.
FlatFixParam(param) ==
    IF param.k = "S"
    THEN LET name == _fix_param_name(param.str)
         IN  IF IsAbort(name) THEN Abort ELSE P(name.str, _known(name.str))
    ELSE FixLoop(SplitEach(param.items), 1, <<>>)

\* param is S(string) or L(list of strings).
_fix_param(param) ==
    IF param.k = "S"
    THEN IF ~Contains(param.str, ",")
         THEN LET name == _fix_param_name(param.str)
              IN  IF IsAbort(name) THEN Abort ELSE P(name.str, _known(name.str))
         ELSE FixLoop(Split(param.str, ","), 1, <<>>)
    ELSE FixLoop(param.items, 1, <<>>)

\* -------------------------------------------------------------- hooks
(***************************************************************************)
(* A hook is a generator over the list params, which it may change in      *)
(* place.  Each operator below is one resumption of the generator: n is    *)
(* the number of values it has yielded so far, and the result is           *)
(*   [st |-> "yield", params, val, shared]  suspended at a yield: params   *)
(*        is the list as the hook has left it, val the yielded value, and  *)
(*        shared says whether val is the list params itself (TRUE) or a    *)
(*        new list (FALSE);                                                *)
(*   [st |-> "end", params]                  the generator has returned;   *)
(*   [st |-> "raise"]                        an exception.                 *)
(* params is the sequence of the list's items.                             *)
(***************************************************************************)
Yield(params, val, shared) ==
    [st |-> "yield", params |-> params, val |-> val, shared |-> shared]
End(params) == [st |-> "end", params |-> params]
Raise == [st |-> "raise"]

SetLast(s, v) == Append(Front(s), v)
SetAt(s, i, v) == [s EXCEPT ![i] = v]

_hook_names == {"background9", "bgcolor", "size", "style", "style_type",
                "dropdown", "textlist", "model"}

_passive_hooks == {"dropdown", "textlist"}

_background9_hook(params, n) ==
    CASE n = 0 ->
           IF params = <<>> THEN Raise
           ELSE IF Last(params) # P("middle", "string") THEN Raise
           ELSE LET q == SetLast(params, L(<<P("middle_x", "number")>>))
                IN  Yield(q, q, TRUE)
      [] n = 1 ->
           LET q == SetLast(params,
                        L(Append(Last(params).items, P("middle_y", "number"))))
           IN  Yield(q, q, TRUE)
      [] n = 2 ->
           LET q == SetLast(params,
                        L(Last(params).items \o <<P("middle_x2", "number"),
                                                  P("middle_y2", "number")>>))
           IN  Yield(q, q, TRUE)
      [] OTHER -> End(params)

\* Mutant: range(1, len(params) + 1), one more truncated variant.
BgcolorToEmpty(params, n) ==
    IF n = 0 THEN Yield(params, params, TRUE)
    ELSE IF n <= Len(params) THEN Yield(params, SubSeq(params, 1, Len(params) - n), FALSE)
    ELSE End(params)

\* yield params, then params[:-i] for i in range(1, len(params))
_bgcolor_hook(params, n) ==
    IF n = 0 THEN Yield(params, params, TRUE)
    ELSE IF n < Len(params) THEN Yield(params, SubSeq(params, 1, Len(params) - n), FALSE)
    ELSE End(params)

_size_hook(params, n) ==
    CASE n = 0 -> Yield(params, params, TRUE)
      [] n = 1 -> Yield(params, <<L(<<P("w", "number"), P("h", "number")>>)>>, FALSE)
      [] OTHER -> End(params)

_style_hook(params, n) ==
    CASE n = 0 ->
           IF params = <<>> THEN Raise
           ELSE LET q == SetAt(params, 1, L(<<P("name", "string")>>))
                IN  Yield(q, q, TRUE)
      [] n = 1 ->
           LET q == SetAt(params, 1, L(<<V(P("selectors", "string"))>>))
           IN  Yield(q, q, TRUE)
      [] OTHER -> End(params)

\* Not a generator: it runs when called and returns the empty tuple.
\* params[1][0] is a string exactly when params[1] is a Parameter.
_scroll_container_hook(params, n) ==
    IF Len(params) < 2 THEN Raise
    ELSE IF IsList(params[2]) /\ params[2].items = <<>> THEN Raise
    ELSE IF IsParam(params[2])
    THEN End(SetAt(params, 2, L(<<P("w", "number"), P("h", "number")>>)))
    ELSE End(SetAt(params, 2, P("w", "number")))

_textlist_hook(params, n) ==
    IF n = 0 /\ Len(params) > 5 THEN Yield(params, SubSeq(params, 1, 5), FALSE)
    ELSE End(params)

\* The three rewrites of lines 147-156, or Raise.
ModelFix(params) ==
    IF Len(params) < 5 THEN Raise
    ELSE IF params[5] # P("textures", "string") THEN Raise
    ELSE IF Len(params) < 6 THEN Raise
    ELSE IF params[6] # L(<<P("rotation_x", "string"), P("y", "number")>>) THEN Raise
    ELSE IF Len(params) < 9 THEN Raise
    ELSE IF params[9] # P("frame_loop_range", "string") THEN Raise
    ELSE End([params EXCEPT
                ![5] = L(<<V(P("textures", "string"))>>),
                ![6] = L(<<P("rotation_x", "number"), P("rotation_y", "number")>>),
                ![9] = L(<<P("frame_loop_begin", "number"),
                           P("frame_loop_end", "number")>>)])

\* for i in range(5, len(params) + 1): yield params[:i]
_model_hook(params, n) ==
    IF n = 0
    THEN LET f == ModelFix(params)
         IN  IF f.st = "raise" THEN Raise
             ELSE Yield(f.params, SubSeq(f.params, 1, 5), FALSE)
    ELSE IF 5 + n <= Len(params) THEN Yield(params, SubSeq(params, 1, 5 + n), FALSE)
    ELSE End(params)

\* _hooks[name](params), resumed for the (n+1)st time
_hooks(name, params, n) ==
    CASE name = "background9" -> _background9_hook(params, n)
      [] name = "bgcolor" -> _bgcolor_hook(params, n)
      [] name = "size" -> _size_hook(params, n)
      [] name \in {"style", "style_type"} -> _style_hook(params, n)
      [] name = "dropdown" -> _scroll_container_hook(params, n)
      [] name = "textlist" -> _textlist_hook(params, n)
      [] name = "model" -> _model_hook(params, n)

\* ------------------------------------------------- optional parameters

\* `:? ` of _param_re at the start of s
ColonSpace(s) == StartsWith(s, ": ") \/ StartsWith(s, " ")

\* `([^`]+)` at the start of s: [ok, name, rest], rest what follows the
\* closing backtick.
Quoted(s) ==
    IF ~StartsWith(s, BT) THEN [ok |-> FALSE]
    ELSE LET t == SubSeq(s, 2, Len(s))
             j == Find(t, BT)
         IN  IF j < 2 THEN [ok |-> FALSE]
             ELSE [ok |-> TRUE, name |-> SubSeq(t, 1, j - 1),
                   rest |-> SubSeq(t, j + 1, Len(t))]

\* _param_re.match(line): [ok, groups], groups the names captured (one or
\* two).  The optional second group is tried first and given up when the
\* rest of the pattern does not match after it.
_param_re(line) ==
    IF ~StartsWith(line, "* ") THEN [ok |-> FALSE]
    ELSE LET g1 == Quoted(SubSeq(line, 3, Len(line)))
         IN  IF ~g1.ok THEN [ok |-> FALSE]
             ELSE LET g2 == IF StartsWith(g1.rest, " and ")
                            THEN Quoted(SubSeq(g1.rest, 6, Len(g1.rest)))
                            ELSE [ok |-> FALSE]
                  IN  IF g2.ok /\ ColonSpace(g2.rest)
                      THEN [ok |-> TRUE, groups |-> <<g1.name, g2.name>>]
                      ELSE IF ColonSpace(g1.rest)
                      THEN [ok |-> TRUE, groups |-> <<g1.name>>]
                      ELSE [ok |-> FALSE]

\* The names one line adds to optional_params (lines 192-198).
LineOptional(line) ==
    LET m == _param_re(line)
    IN  IF ~m.ok \/ ~Contains(Lower(line), "optional") THEN <<>> ELSE m.groups

\* Lines 190-198: [ok, names]; ok is FALSE when _fix_param_name asserts.
RECURSIVE OptionalParams(_)
OptionalParams(ls) ==
    IF ls = <<>> THEN [ok |-> TRUE, names |-> {}]
    ELSE LET g == LineOptional(Head(ls))
             rest == OptionalParams(Tail(ls))
         IN  IF \E i \in DOMAIN g : IsAbort(_fix_param_name(g[i]))
             THEN [ok |-> FALSE, names |-> {}]
             ELSE [ok |-> rest.ok,
                   names |-> {_fix_param_name(g[i]).str : i \in DOMAIN g}
                             \cup rest.names]

\* Mutant: the set of optional names is not consulted.
IsAnyParam(last_param, optional) == IsTuple(last_param) /\ IsParam(last_param)

\* Lines 210-214: whether the loop goes on to drop the trailing item.
IsOptionalParam(last_param, optional) ==
    IsTuple(last_param) /\ IsParam(last_param) /\ last_param.name \in optional

\* ------------------------------------------------------------ sections

ElementsHeading == "\nElements\n--------\n"

\* Line 165 and line 168.
Section(data) ==
    LET fromHeading == Last(Split1(data, ElementsHeading))
        toNext == Split1(fromHeading, "\n----")[1]
    IN  RSplit1(toNext, "\n")[1]

\* --------------------------------------------------------- aggregation

\* res[k].append(v), with res[k] = [] first when k is new (lines 230-232)
Put(table, key, v) ==
    [n \in DOMAIN table \cup {key} |->
        IF n \in DOMAIN table
        THEN (IF n = key THEN Append(table[n], v) ELSE table[n])
        ELSE <<v>>]

\* One step of a stable insertion: v goes after every shape that is at
\* least as long.
RECURSIVE InsertByLen(_, _)
InsertByLen(sorted, v) ==
    IF sorted = <<>> THEN <<v>>
    ELSE IF Len(Head(sorted)) >= Len(v)
    THEN <<Head(sorted)>> \o InsertByLen(Tail(sorted), v)
    ELSE <<v>> \o sorted

\* v.sort(key=len, reverse=True): stable, equal lengths keep their order.
RECURSIVE SortByLen(_)
SortByLen(shapes) ==
    IF shapes = <<>> THEN <<>>
    ELSE InsertByLen(SortByLen(Front(shapes)), Last(shapes))

\* Mutant: the copies are yielded in the hook's order.
NotReversed(seq) == seq

\* reversed(...) of line 184
Reversed(seq) == [i \in 1..Len(seq) |-> seq[Len(seq) + 1 - i]]

\* Mutant: the yielded value is kept as it is, the hook's list included.
NoCopy(y) == y

\* copy.deepcopy of a yielded value y = [shared, val]: a value of its own,
\* which no later change of the hook's list reaches.
DeepCopy(y) == [shared |-> FALSE, val |-> y.val]

\* What the values collected so far are once the hook has changed its list
\* to params: a value that is the list itself changes with it.
Aliased(out, params) ==
    [i \in 1..Len(out) |->
        IF out[i].shared THEN [shared |-> TRUE, val |-> params] ELSE out[i]]

\* --------------------------------------------------------- documents
(***************************************************************************)
(* The input documents: a preamble, the Elements heading (or not), element *)
(* records, and the next heading.  The records are either at most          *)
(* MaxRecords records of a reference document written after lua_api.txt,   *)
(* in its order, or one record whose signature is any sequence of at most  *)
(* MaxNames names joined by "," and ";".                                   *)
(***************************************************************************)
MaxRecords == 2
MaxNames == 3

Record(head, desc) == "### " \o head \o "\n\n" \o desc \o "\n"
Element(sig) == BT \o sig \o BT

ReferenceRecords == <<
    Record(Element("label[x,y;label]"), ""),
    Record(Element("background9[<X>,<Y>;<W>,<H>;<texture name>;<auto_clip>;<middle>]"),
           "* 9-sliced background.\n"),
    Record(Element("background9[<X>,<Y>;<middle>;<auto_clip>]"), ""),
    Record(Element("bgcolor[<bgcolor>;<fullscreen>;<fbgcolor>]"),
           "* 'fbgcolor' and 'fullscreen' are optional\n"),
    Record(Element("bgcolor[]"), ""),
    Record(Element("size[<W>,<H>,<fixed_size>]"), "* 'fixed_size': 'true'/'false' (optional)\n"),
    Record(Element("style[<selector 1>,<selector 2>,...;<prop1>;<prop2>;...]"), ""),
    Record(Element("style_type[<selector 1>,<selector 2>,...;<prop1>;<prop2>;...]"), ""),
    Record(Element("dropdown[<X>,<Y>;<W>;<name>;<item 1>,<item 2>, ...,<item n>;<selected idx>;<index event>]"),
           "* 'index event' (optional, allowed parameter since formspec version 4)\n"),
    Record(Element("dropdown[<X>,<Y>;<W>,<H>;<name>;<item 1>,<item 2>, ...,<item n>;<selected idx>;<index event>]"),
           "* Index event: Optional\n* 'Index Event': optional\n"),
    Record(Element("textlist[<X>,<Y>;<W>,<H>;<name>;<listelem 1>,<listelem 2>,...,<listelem n>;<selected idx>;<transparent>]"),
           "* 'x' and 'y': position\n* 'transparent' : optional\n"),
    Record(Element("model[<X>,<Y>;<W>,<H>;<name>;<mesh>;<textures>;<rotation X,Y>;<continuous>;<mouse control>;<frame loop range>;<animation speed>]"),
           ""),
    Record(Element("model[<X>,<Y>;<W>,<H>;<name>;<mesh>;<textures>]"), ""),
    Record(Element("tablecolumns[<type 1>,<opt 1a>,<opt 1b>,...;<type 2>,<opt 2a>,<opt 2b>;...]"), ""),
    Record(Element("polygon[x1,y1;x2,y2;...]"), ""),
    Record(Element("field[<name>;<label>;<default>]"),
           "* 'name': the name of the field\n* 'default' and 'label': may be left out (optional)\n"),
    Record(Element("box[<X>,<Y>;<W>,<H>;<color>]"), "* '...': optional\n"),
    Record(Element("list[]"), "* 'x': optional\n"),
    Record(Element("container_end"), ""),
    Record("Notes", "* 'x': optional\n")
>>

Names == {"x", "b", "<a 2>", "..."}

RECURSIVE Signatures(_)
Signatures(n) ==
    IF n = 1 THEN Names
    ELSE {s \o sep \o name : s \in Signatures(n - 1), sep \in {",", ";"}, name \in Names}

Descriptions == {"* Plain text\n",
                 "* 'B' and '<A 2>' are optional\n* 'y': Optional\n"}

\* An element without a hook, with each description, and bgcolor, whose
\* hook takes any shape.
GeneratedRecords ==
    LET sigs == UNION {Signatures(n) : n \in 1..MaxNames}
    IN  {Record(Element("elem[" \o sig \o "]"), desc) : sig \in sigs, desc \in Descriptions}
        \cup {Record(Element("bgcolor[" \o sig \o "]"), "") : sig \in sigs}

\* The reference document with all but n of its records, from the ith on,
\* removed.
RECURSIVE Excerpts(_, _)
Excerpts(i, n) ==
    IF n = 0 THEN {""}
    ELSE UNION {{ReferenceRecords[j] \o rest : rest \in Excerpts(j + 1, n - 1)} :
                   j \in i..Len(ReferenceRecords)}

NextHeading == "Migrating to Real Coordinates\n-----------------------------\n"

\* Nothing but the Elements heading, the records and the next heading.
Minimal(body) == ElementsHeading \o "\n" \o body \o NextHeading

\* After a preamble with a heading of its own; minimal; and without the
\* Elements heading, after a preamble with and without a heading.
Documents ==
    {"Formspec\n--------\nIntro\n" \o Minimal(body) :
        body \in GeneratedRecords \cup UNION {Excerpts(1, n) : n \in 1..MaxRecords}}
    \cup {Minimal(body) : body \in Excerpts(1, 1)}
    \cup {pre \o "\n\n" \o body \o NextHeading :
        pre \in {"Formspec", "Formspec\n--------\nIntro"}, body \in Excerpts(1, 1)}

\* ------------------------------------------------------ state machine

VARIABLES
    doc,              \* parse's argument data
    pc,               \* "start", "records", "hook", "emit", "optional",
                      \* "expand", and "done" (parse returned) or "failed"
                      \* (an exception left parse)
    records,          \* the element records _raw_parse has still to read
    name,             \* the current record's element name
    lines,            \* its description lines
    params,           \* the list params: the sequence of its items
    hooked,           \* how many values the current hook has yielded
    hookOut,          \* tuple(map(copy.deepcopy, hook)) so far
    queue,            \* reversed(hookOut) still to be yielded
    optional_params,  \* the current record's optional names
    res,              \* parse's dict res
    parsed,           \* history: what _fix_param returned for the record
    sig,              \* history: the record's raw signature
    hookLog,          \* history: per hooked record, the list the hook was
                      \* given and the value it yielded at each yield
    entered,          \* history: params as the optional-suffix loop of the
                      \* current record was entered
    expanded          \* history: the shapes the optional-suffix loop has
                      \* yielded for the current record

vars == <<doc, pc, records, name, lines, params, hooked, hookOut, queue,
          optional_params, res, parsed, sig, hookLog, entered, expanded>>

cur == <<name, lines, params, parsed, sig>>
hook == <<hooked, hookOut, queue, hookLog>>

EmptyTable == [n \in {} |-> <<>>]

Init ==
    /\ doc \in Documents
    /\ pc = "start"
    /\ records = <<>>
    /\ name = ""
    /\ lines = <<>>
    /\ params = <<>>
    /\ hooked = 0
    /\ hookOut = <<>>
    /\ queue = <<>>
    /\ optional_params = {}
    /\ res = EmptyTable
    /\ parsed = <<>>
    /\ sig = ""
    /\ hookLog = <<>>
    /\ entered = <<>>
    /\ expanded = <<>>

\* An exception leaves _raw_parse and parse: nothing is returned.
Fail == pc' = "failed" /\ UNCHANGED <<doc, records, cur, hook, optional_params, res, entered, expanded>>

\* Lines 165-171: the section, split into records.
Extract ==
    /\ pc = "start"
    /\ records' = Split(Section(doc), "\n### ")
    /\ pc' = "records"
    /\ UNCHANGED <<doc, cur, hook, optional_params, res, entered, expanded>>

\* Lines 172-187: the next record's heading line and signature.
ElementRecord ==
    /\ pc = "records"
    /\ records # <<>>
    /\ LET elem_data == Split(Head(records), "\n")
           raw_elem == Head(elem_data)
           parts == Split1(SubSeq(raw_elem, 2, Len(raw_elem) - 2), "[")
           shape == IF parts[2] = "" THEN L(<<>>)
                    ELSE _fix_param(L(Split(parts[2], ";")))
       IN  IF ~StartsWith(raw_elem, BT) \/ ~EndsWith(raw_elem, BT)
           THEN /\ records' = Tail(records)
                /\ UNCHANGED <<doc, pc, cur, hook, optional_params, res, entered, expanded>>
           ELSE IF Len(parts) < 2 THEN Fail
           ELSE IF IsAbort(shape) THEN Fail
           ELSE /\ records' = Tail(records)
                /\ name' = parts[1]
                /\ lines' = Tail(elem_data)
                /\ sig' = parts[2]
                /\ parsed' = shape.items
                /\ params' = shape.items
                /\ hooked' = 0
                /\ hookOut' = <<>>
                /\ expanded' = <<>>
                /\ entered' = <<>>
                /\ IF parts[1] \in _hook_names
                   THEN /\ pc' = "hook"
                        /\ hookLog' = Append(hookLog,
                              [name |-> parts[1], input |-> shape.items, yields |-> <<>>])
                   ELSE /\ pc' = "optional"
                        /\ UNCHANGED hookLog
                /\ UNCHANGED <<doc, queue, optional_params, res>>

\* Line 184: the hook of the elements in names runs to its next yield, whose
\* value is copied, or to its end.
RunHook(names) ==
    /\ pc = "hook"
    /\ name \in names
    /\ LET r == _hooks(name, params, hooked)
       IN  CASE r.st = "raise" -> Fail
             [] r.st = "yield" ->
                  /\ params' = r.params
                  /\ hooked' = hooked + 1
                  /\ hookOut' = Append(Aliased(hookOut, r.params),
                                       DeepCopy([shared |-> r.shared, val |-> r.val]))
                  /\ hookLog' = [hookLog EXCEPT ![Len(hookLog)].yields = Append(@, r.val)]
                  /\ UNCHANGED <<doc, pc, records, name, lines, parsed, sig, queue,
                                 optional_params, res, entered, expanded>>
             [] r.st = "end" ->
                  /\ params' = r.params
                  /\ queue' = Reversed([i \in 1..Len(hookOut) |->
                                            Aliased(hookOut, r.params)[i].val])
                  /\ pc' = "emit"
                  /\ UNCHANGED <<doc, records, name, lines, parsed, sig, hooked,
                                 hookOut, hookLog, optional_params, res, entered, expanded>>

Background9Hook == RunHook({"background9"})
BgcolorHook == RunHook({"bgcolor"})
SizeHook == RunHook({"size"})
StyleHook == RunHook({"style", "style_type"})
ScrollContainerHook == RunHook({"dropdown"})
TextlistHook == RunHook({"textlist"})
ModelHook == RunHook({"model"})

\* Lines 184-187 and 229-232: the copies are yielded, last first, and parse
\* appends each to res[name]; then an exclusive hook ends the record.
EmitHook ==
    /\ pc = "emit"
    /\ IF queue # <<>>
       THEN /\ res' = Put(res, name, Head(queue))
            /\ queue' = Tail(queue)
            /\ UNCHANGED <<doc, pc, records, cur, hooked, hookOut, hookLog,
                           optional_params, entered, expanded>>
       ELSE /\ pc' = IF name \in _passive_hooks THEN "optional" ELSE "records"
            /\ UNCHANGED <<doc, records, cur, hook, optional_params, res, entered, expanded>>

\* Lines 190-198.
ScanOptional ==
    /\ pc = "optional"
    /\ LET o == OptionalParams(lines)
       IN  IF ~o.ok THEN Fail
           ELSE /\ optional_params' = o.names
                /\ entered' = params
                /\ pc' = "expand"
                /\ UNCHANGED <<doc, records, cur, hook, res, expanded>>

\* Mutant: the loop drops the trailing item whatever it is.
ExpandAll ==
    /\ pc = "expand"
    /\ res' = Put(res, name, params)
    /\ expanded' = Append(expanded, params)
    /\ IF params = <<>> THEN pc' = "records" /\ UNCHANGED params
       ELSE params' = Front(params) /\ UNCHANGED pc
    /\ UNCHANGED <<doc, records, name, lines, parsed, sig, hook, optional_params,
                   entered>>

\* Lines 205-216 and 229-232: one turn of the loop; parse appends the shape
\* yielded to res[name].
Expand ==
    /\ pc = "expand"
    /\ res' = Put(res, name, params)
    /\ expanded' = Append(expanded, params)
    /\ IF params = <<>> THEN pc' = "records" /\ UNCHANGED params
       ELSE IF ~IsOptionalParam(Last(params), optional_params)
       THEN pc' = "records" /\ UNCHANGED params
       ELSE params' = Front(params) /\ UNCHANGED pc
    /\ UNCHANGED <<doc, records, name, lines, parsed, sig, hook, optional_params,
                   entered>>

\* Lines 234-237: the generator is exhausted; every list is sorted and res
\* is returned.
Return ==
    /\ pc = "records"
    /\ records = <<>>
    /\ res' = [n \in DOMAIN res |-> SortByLen(res[n])]
    /\ pc' = "done"
    /\ UNCHANGED <<doc, records, cur, hook, optional_params, entered, expanded>>

Next ==
    \/ Extract
    \/ ElementRecord
    \/ Background9Hook
    \/ BgcolorHook
    \/ SizeHook
    \/ StyleHook
    \/ ScrollContainerHook
    \/ TextlistHook
    \/ ModelHook
    \/ EmitHook
    \/ ScanOptional
    \/ Expand
    \/ Return

Spec == Init /\ [][Next]_vars

\* -------------------------------------------------------------- claims

Returned == pc = "done"
Ended == pc \in {"done", "failed"}

\* The minimal document whose one record is `label[x,y;label]`, with no
\* description lines.
LabelDocument == Minimal(Record(Element("label[x,y;label]"), ""))

\* C1 as stated: parse of the minimal label document returns the table
\* whose one key, label, holds the one shape of the three Parameters
\* (x,number), (y,number), (label,string).
C1_Original ==
    (doc = LabelDocument /\ Ended) =>
        /\ Returned
        /\ res = ("label" :> << <<P("x", "number"), P("y", "number"),
                                  P("label", "string")>> >>)

\* C1 as amended: parse of the minimal label document returns the table
\* whose one key, label, holds one shape of two items: the Group of
\* (x,number) and (y,number), which the signature joins with a comma, and
\* then the Parameter (label,string).
C1_LabelShape ==
    (doc = LabelDocument /\ Ended) =>
        /\ Returned
        /\ res = ("label" :> << <<L(<<P("x", "number"), P("y", "number")>>),
                                  P("label", "string")>> >>)

C1_Witness == doc = LabelDocument /\ Returned

\* C2: the signature "x1,y1;x2,y2;..." parses to the one-item shape whose
\* item is the VariadicTail of the Group [(x,number), (y,number)].
C2_RepeatingPair ==
    (sig = "x1,y1;x2,y2;..." /\ pc # "start") =>
        parsed = <<V(L(<<P("x", "number"), P("y", "number")>>))>>

\* C3: when the document holds no Elements heading, parse fails: it never
\* reads an element record and returns no table.
C3_NoHeadingFails ==
    ~Contains(doc, ElementsHeading) =>
        /\ ~Returned
        /\ res = EmptyTable

\* A bare Parameter documented as optional: what the loop may drop.
Droppable(item) == IsParam(item) /\ item.name \in optional_params

\* C4 as stated: for a record whose raw signature is not empty, no shape
\* the optional-suffix loop yields is empty.
C4_Original ==
    sig # "" => \A i \in DOMAIN expanded : expanded[i] # <<>>

\* C4 as amended: for a record whose raw signature is not empty, the first
\* shape the optional-suffix loop yields is not empty, and it yields the
\* empty shape only when every item of that first shape is a bare
\* Parameter documented as optional.
C4_EmptyOnlyIfAllOptional ==
    (sig # "" /\ expanded # <<>>) =>
        /\ expanded[1] # <<>>
        /\ \A i \in DOMAIN expanded :
              expanded[i] = <<>> =>
                  \A j \in DOMAIN expanded[1] : Droppable(expanded[1][j])

C4_Witness ==
    sig # "" /\ \E i \in DOMAIN expanded : expanded[i] = <<>>

\* C5: the shapes the optional-suffix loop yields for one record start with
\* the shape the loop was entered with; each later one is the one before it
\* less its last item, which was a bare Parameter documented as optional;
\* and the loop ends exactly when the shape yielded last is empty or ends in
\* an item that is not such a Parameter.
C5_SuffixExpansion ==
    expanded # <<>> =>
        /\ expanded[1] = entered
        /\ \A i \in 2..Len(expanded) :
              /\ expanded[i - 1] # <<>>
              /\ expanded[i] = Front(expanded[i - 1])
              /\ Droppable(Last(expanded[i - 1]))
        /\ LET last == Last(expanded)
           IN  (pc = "expand") <=> (last # <<>> /\ Droppable(Last(last)))

\* Two optional Parameters were dropped and the loop stopped at an item it
\* may not drop.
C5_Witness ==
    /\ Len(expanded) = 3
    /\ pc = "records"
    /\ Last(expanded) # <<>>

\* The hooked records whose hook has run to its end.
Finished(i) == i < Len(hookLog) \/ pc \notin {"hook", "failed"}

\* C6 as stated: for bgcolor with a parsed shape of n items the hook yields
\* n + 1 variants.
C6_Original ==
    \A i \in DOMAIN hookLog :
        (hookLog[i].name = "bgcolor" /\ Finished(i)) =>
            Len(hookLog[i].yields) = Len(hookLog[i].input) + 1

\* C6 as amended: for bgcolor with a parsed shape of n >= 1 items the hook
\* yields n variants, the jth being the first n - j + 1 items: the full
\* shape and one variant for each of 1 to n - 1 trailing items removed,
\* never the empty shape; for n = 0 it yields the one empty shape.
C6_BgcolorVariants ==
    \A i \in DOMAIN hookLog :
        (hookLog[i].name = "bgcolor" /\ Finished(i)) =>
            LET n == Len(hookLog[i].input)
                yields == hookLog[i].yields
            IN  /\ Len(yields) = IF n = 0 THEN 1 ELSE n
                /\ \A j \in DOMAIN yields :
                      yields[j] = SubSeq(hookLog[i].input, 1, n - j + 1)

C6_Witness ==
    \E i \in DOMAIN hookLog :
        /\ hookLog[i].name = "bgcolor"
        /\ Finished(i)
        /\ Len(hookLog[i].input) = 3
        /\ Len(hookLog[i].yields) = 3

\* The shapes of length n among shapes, in their order.
RECURSIVE OfLength(_, _)
OfLength(shapes, n) ==
    IF shapes = <<>> THEN <<>>
    ELSE (IF Len(Head(shapes)) = n THEN <<Head(shapes)>> ELSE <<>>)
         \o OfLength(Tail(shapes), n)

RECURSIVE Backwards(_)
Backwards(seq) == IF seq = <<>> THEN <<>> ELSE Append(Backwards(Tail(seq)), Head(seq))

\* What the hooks yielded for element elem, record after record, each
\* record's variants in yield order (rev = FALSE) or in the reverse of it.
RECURSIVE YieldedFor(_, _, _)
YieldedFor(elem, log, rev) ==
    IF log = <<>> THEN <<>>
    ELSE (IF Head(log).name # elem THEN <<>>
          ELSE IF rev THEN Backwards(Head(log).yields) ELSE Head(log).yields)
         \o YieldedFor(elem, Tail(log), rev)

Exclusive == _hook_names \ _passive_hooks

Lengths(shapes) == {Len(shapes[i]) : i \in DOMAIN shapes}

\* C7 as stated: in the table returned, the variants of equal length of an
\* element with an exclusive hook stand in the order in which the hook
\* yielded them.
C7_Original ==
    Returned =>
        \A elem \in DOMAIN res \cap Exclusive :
            \A n \in Lengths(res[elem]) :
                OfLength(res[elem], n) = OfLength(YieldedFor(elem, hookLog, FALSE), n)

\* C7 as amended: in the table returned, the variants of equal length that
\* an exclusive hook yielded for one record stand in the reverse of the
\* order in which the hook yielded them (style's repeatable-selectors form
\* before its single-name form); records keep their order.
C7_ReverseYieldOrder ==
    Returned =>
        \A elem \in DOMAIN res \cap Exclusive :
            \A n \in Lengths(res[elem]) :
                OfLength(res[elem], n) = OfLength(YieldedFor(elem, hookLog, TRUE), n)

C7_Witness ==
    /\ Returned
    /\ "style" \in DOMAIN res
    /\ Len(res["style"]) = 2
    /\ res["style"][1][1] = L(<<V(P("selectors", "string"))>>)
    /\ res["style"][2][1] = L(<<P("name", "string")>>)

\* Within every list, a VariadicTail is the last item.
RECURSIVE TailsTerminal(_)
TailsTerminal(items) ==
    \A i \in DOMAIN items :
        /\ IsTail(items[i]) => i = Len(items)
        /\ IsList(items[i]) => TailsTerminal(items[i].items)
        /\ (IsTail(items[i]) /\ IsList(items[i].unit)) =>
               TailsTerminal(items[i].unit.items)

\* The tokens up to the first '...', that token included.
RECURSIVE UpToEllipsis(_)
UpToEllipsis(tokens) ==
    IF tokens = <<>> THEN <<>>
    ELSE IF Strip(Head(tokens), Whitespace) = "..." THEN <<Head(tokens)>>
    ELSE <<Head(tokens)>> \o UpToEllipsis(Tail(tokens))

HasEllipsis(tokens) ==
    \E i \in DOMAIN tokens : Strip(tokens[i], Whitespace) = "..."

\* A record has been parsed: sig and parsed are its signature and shape.
Parsed == pc # "start" /\ sig # ""

\* C8: in the shape _fix_param returns and in every list within it, a
\* VariadicTail stands only last (so at most once); and the tokens after the
\* first '...', of the signature and of every comma list in it, add nothing:
\* the result is that of the tokens up to the '...'.
C8_TailTerminal ==
    Parsed =>
        LET tokens == Split(sig, ";")
            read == UpToEllipsis(tokens)
        IN  /\ TailsTerminal(parsed)
            /\ parsed = _fix_param(L(read)).items
            /\ \A i \in DOMAIN read :
                  LET p == Strip(read[i], Whitespace)
                  IN  Contains(p, ",") =>
                          _fix_param(S(p)) = _fix_param(L(UpToEllipsis(Split(p, ","))))

\* A token follows the '...' and the shape ends in the VariadicTail.
C8_Witness ==
    /\ Parsed
    /\ LET tokens == Split(sig, ";")
       IN  HasEllipsis(tokens) /\ Len(UpToEllipsis(tokens)) < Len(tokens)
    /\ parsed # <<>>
    /\ IsTail(Last(parsed))

Digits == {"0", "1", "2", "3", "4", "5", "6", "7", "8", "9"}

\* A name with its trailing numeric suffix removed, as C9 has it: a name
\* without one is left whole.
WithoutNumericSuffix(str) == RStrip(RStrip(str, Digits), {"_"})

RECURSIVE PopSuffixless(_, _)
PopSuffixless(units, group) ==
    IF units # <<>> /\ IsParam(Last(units))
       /\ WithoutNumericSuffix(Last(units).name) = group
    THEN PopSuffixless(Front(units), group) ELSE units

\* C9: when '...' follows a plain Parameter, the group name is the seed's
\* name less its trailing numeric suffix (the whole name when it has none);
\* the trailing units with that group name are removed, and the
\* VariadicTail of the Parameter of that name is appended.  Stated for the
\* signatures whose tokens before the '...' are all plain names.
C9_GroupName ==
    Parsed =>
        LET tokens == Split(sig, ";")
            read == UpToEllipsis(tokens)
            j == Len(read)
            units == [i \in 1..(j - 1) |-> _fix_param(S(Strip(read[i], Whitespace)))]
        IN  (/\ HasEllipsis(tokens)
             /\ j >= 2
             /\ \A i \in 1..(j - 1) : ~Contains(read[i], ","))
            => LET group == WithoutNumericSuffix(units[j - 1].name)
               IN  parsed = Append(PopSuffixless(Front(units), group),
                                   V(_fix_param(S(group))))

Range(seq) == {seq[i] : i \in DOMAIN seq}

\* The three variants of background9 for the shape input.
Background9Variants(input) ==
    LET mx == P("middle_x", "number")
        my == P("middle_y", "number")
        mx2 == P("middle_x2", "number")
        my2 == P("middle_y2", "number")
    IN  {Append(Front(input), L(<<mx>>)),
         Append(Front(input), L(<<mx, my>>)),
         Append(Front(input), L(<<mx, my, mx2, my2>>))}

\* C10: while a hook runs, every copy taken holds the value its list had
\* at that yield, whatever the hook has done to the list since; the table
\* returned holds every value yielded; and for background9, whose shape
\* ends in (middle,string), it holds the three variants that end in the
\* Group of 1, 2 and 4 numeric parameters and are equal otherwise.
C10_CopiedAtYield ==
    /\ pc \in {"hook", "emit"} =>
          \A i \in DOMAIN hookOut : hookOut[i].val = Last(hookLog).yields[i]
    /\ Returned =>
          \A i \in DOMAIN hookLog :
              /\ Range(hookLog[i].yields) \subseteq Range(res[hookLog[i].name])
              /\ hookLog[i].name = "background9" =>
                    /\ Last(hookLog[i].input) = P("middle", "string")
                    /\ Background9Variants(hookLog[i].input)
                          \subseteq Range(res["background9"])

C10_Witness ==
    /\ Returned
    /\ "background9" \in DOMAIN res
    /\ Len(res["background9"]) = 3

=============================================================================
